---- MODULE Spec2Model ----
(***************************************************************************)
(* The two GeoMet quick-demo notebooks (WCS and WMS) as a state machine.   *)
(*                                                                         *)
(* A run executes the code cells of one notebook from top to bottom in one *)
(* kernel; a cell that raises ends the run.  The kernel namespace is the   *)
(* function ns from the names bound so far to their values.  A Python      *)
(* string that the code takes apart (a dimension descriptor) is a sequence *)
(* of one-character strings; a string the code only passes on (a layer     *)
(* name, a user name, a format) is a TLA+ string.                          *)
(***************************************************************************)
EXTENDS Integers, Sequences, FiniteSets, TLC

VARIABLES
    notebook,   \* which notebook runs: "wcs" or "wms"
    pc,         \* index, in the notebook's cell list, of the next cell to run
    ns,         \* the kernel namespace: bound name -> value
    error,      \* the exception that ended the run, or NoError
    calls,      \* the calls made to the external collaborators, in order
    parsed      \* history of the descriptor-unpacking statements executed

vars == <<notebook, pc, ns, error, calls, parsed>>

----------------------------------------------------------------------------
(* Bounds of the model *)

\* longest descriptor drawn from the character set in the parser harness
MaxLen == 4

\* longest 'values' list of a dimension in a capability response
MaxValues == 2

\* executions of the unpacking cells in the parser harness
MaxParses == 3

----------------------------------------------------------------------------
(* Strings *)

\* the separator and two other characters
Chars == {"/", "a", "b"}

\* every string over Chars of length at most MaxLen
Strings == UNION {[1..n -> Chars] : n \in 0..MaxLen}

\* 'values' of 'reference_time' in the recorded capability response
RefExample ==
    << "2", "0", "2", "2", "-", "0", "6", "-", "1", "9", "T", "1",
       "2", ":", "0", "0", ":", "0", "0", "Z", "/", "2", "0", "2",
       "2", "-", "0", "6", "-", "2", "1", "T", "0", "0", ":", "0",
       "0", ":", "0", "0", "Z", "/", "P", "T", "1", "2", "H" >>

\* 'values' of 'time' in the recorded capability response
TimeExample ==
    << "2", "0", "2", "2", "-", "0", "6", "-", "2", "1", "T", "0",
       "1", ":", "0", "0", ":", "0", "0", "Z", "/", "2", "0", "2",
       "2", "-", "0", "6", "-", "2", "7", "T", "0", "0", ":", "0",
       "0", ":", "0", "0", "Z", "/", "P", "T", "1", "H" >>

\* descriptors a server may publish: the two recorded ones, one with a single
\* separator, one with three, and one whose three fields are empty
ServerDescriptors ==
    { RefExample, TimeExample,
      <<"a", "/", "b">>,
      <<"a", "/", "b", "/", "c", "/", "d">>,
      <<"/", "/">> }

\* descriptors given to the parser harness
ParserInputs == Strings \cup ServerDescriptors

----------------------------------------------------------------------------
(* Python semantics used by the cells *)

\* index of the first "/" of s, or 0
FirstSlash(s) ==
    IF \E i \in 1..Len(s) : s[i] = "/"
    THEN CHOOSE i \in 1..Len(s) :
            s[i] = "/" /\ \A j \in 1..(i - 1) : s[j] # "/"
    ELSE 0

RECURSIVE Split(_)
\* s.split('/'): the fields between the separators, empty ones included;
\* a string without separator (the empty string too) gives one field
Split(s) ==
    IF FirstSlash(s) = 0
    THEN <<s>>
    ELSE <<SubSeq(s, 1, FirstSlash(s) - 1)>>
            \o Split(SubSeq(s, FirstSlash(s) + 1, Len(s)))

\* Faulty variant of UnpackInto: the first two values are bound in exchanged
\* order.  C1_RoundTrip rejects it.
UnpackIntoSwapped(targets, seq) ==
    IF Len(seq) = Len(targets)
    THEN [exc |-> "None",
          ns  |-> [n \in DOMAIN ns \cup {targets[i] : i \in 1..Len(targets)} |->
                     IF n = targets[1] THEN seq[2]
                     ELSE IF n = targets[2] THEN seq[1]
                     ELSE IF n = targets[3] THEN seq[3]
                     ELSE ns[n]]]
    ELSE [exc |-> "ValueError", ns |-> ns]

\* Faulty variant of UnpackInto: extra values are dropped and missing ones
\* padded with the empty string instead of raising.  C2_MalformedFails rejects it.
UnpackIntoTruncating(targets, seq) ==
    [exc |-> "None",
     ns  |-> [n \in DOMAIN ns \cup {targets[i] : i \in 1..Len(targets)} |->
                IF \E i \in 1..Len(targets) : targets[i] = n
                THEN LET k == CHOOSE i \in 1..Len(targets) : targets[i] = n
                     IN  IF k <= Len(seq) THEN seq[k] ELSE <<>>
                ELSE ns[n]]]

\* Faulty variant of UnpackInto: a list holding an empty field is refused, as a
\* parser validating its fields would.  C9_StructureOnly rejects it.
UnpackIntoNonEmpty(targets, seq) ==
    IF Len(seq) = Len(targets) /\ \A i \in 1..Len(seq) : seq[i] # <<>>
    THEN [exc |-> "None",
          ns  |-> [n \in DOMAIN ns \cup {targets[i] : i \in 1..Len(targets)} |->
                     IF \E i \in 1..Len(targets) : targets[i] = n
                     THEN seq[CHOOSE i \in 1..Len(targets) : targets[i] = n]
                     ELSE ns[n]]]
    ELSE [exc |-> "ValueError", ns |-> ns]

\* Faulty variant of UnpackInto: the names are bound one after the other, so
\* a list of the wrong length leaves some bound before the exception.
\* C8_NoPartialResult rejects it.
UnpackIntoSequential(targets, seq) ==
    [exc |-> IF Len(seq) = Len(targets) THEN "None" ELSE "ValueError",
     ns  |-> [n \in DOMAIN ns \cup {targets[i] : i \in {k \in 1..Len(targets) : k <= Len(seq)}} |->
                IF \E i \in 1..Len(targets) : targets[i] = n /\ i <= Len(seq)
                THEN seq[CHOOSE i \in 1..Len(targets) : targets[i] = n]
                ELSE ns[n]]]

\* targets = seq as a tuple-unpacking assignment: the length is checked before
\* any name is bound; result is the exception and the namespace afterwards
UnpackInto(targets, seq) ==
    IF Len(seq) = Len(targets)
    THEN [exc |-> "None",
          ns  |-> [n \in DOMAIN ns \cup {targets[i] : i \in 1..Len(targets)} |->
                     IF \E i \in 1..Len(targets) : targets[i] = n
                     THEN seq[CHOOSE i \in 1..Len(targets) : targets[i] = n]
                     ELSE ns[n]]]
    ELSE [exc |-> "ValueError", ns |-> ns]

\* Faulty variant of FirstValue: values[-1].  C10_FirstEntryOnly rejects it.
LastValue(values) == values[Len(values)]

\* values[0]
FirstValue(values) == values[1]

RECURSIVE FieldsOf(_)
\* the fields of all the lists split() returned so far, in order
FieldsOf(log) ==
    IF log = <<>> THEN <<>> ELSE FieldsOf(SubSeq(log, 1, Len(log) - 1)) \o log[Len(log)].fields

\* Faulty variant of ParseDimension: the fields are collected in a list shared
\* by all executions (a mutable default argument), so an execution also gets
\* the fields of the earlier ones.  C5_Deterministic rejects it.
ParseDimensionAccumulating(conn, layer, dim) ==
    IF layer \notin DOMAIN conn.contents
    THEN [exc |-> "KeyError", descriptor |-> <<>>, fields |-> <<>>]
    ELSE IF dim \notin DOMAIN conn.contents[layer].dimensions
    THEN [exc |-> "KeyError", descriptor |-> <<>>, fields |-> <<>>]
    ELSE IF conn.contents[layer].dimensions[dim].values = <<>>
    THEN [exc |-> "IndexError", descriptor |-> <<>>, fields |-> <<>>]
    ELSE [exc |-> "None",
          descriptor |-> conn.contents[layer].dimensions[dim].values[1],
          fields |-> FieldsOf(parsed)
                        \o Split(conn.contents[layer].dimensions[dim].values[1])]

\* conn[layer].dimensions[dim]['values'][0].split('/'): the exception raised,
\* the descriptor reached and the list split() returned
ParseDimension(conn, layer, dim) ==
    IF layer \notin DOMAIN conn.contents
    THEN [exc |-> "KeyError", descriptor |-> <<>>, fields |-> <<>>]
    ELSE IF dim \notin DOMAIN conn.contents[layer].dimensions
    THEN [exc |-> "KeyError", descriptor |-> <<>>, fields |-> <<>>]
    ELSE IF conn.contents[layer].dimensions[dim].values = <<>>
    THEN [exc |-> "IndexError", descriptor |-> <<>>, fields |-> <<>>]
    ELSE [exc |-> "None",
          descriptor |-> FirstValue(conn.contents[layer].dimensions[dim].values),
          fields |-> Split(FirstValue(conn.contents[layer].dimensions[dim].values))]

----------------------------------------------------------------------------
(* The notebooks and their environment *)

\* the code cells of the WCS notebook, in order (the import cell binds no
\* name the model reads and is left out)
WcsCells ==
    << "config", "warnings", "wms", "keys", "titles", "layer", "wms_auth",
       "auth_keys", "dimensions", "ref_parse", "time_parse", "wcs",
       "getCoverage", "open_dataset" >>

\* the code cells of the WMS notebook, in order
WmsCells ==
    << "config", "warnings", "wms", "keys", "titles", "layer", "wms_auth",
       "auth_keys", "getmap" >>

Cells == IF notebook = "wcs" THEN WcsCells ELSE WmsCells

\* position of cell c in the WCS notebook
WcsIndex(c) == CHOOSE i \in 1..Len(WcsCells) : WcsCells[i] = c

NoError == [cell |-> "none", exc |-> "None"]

\* the literal assigned to layer_name
LayerName == "DHPS_1km_RiverDischarge"

\* a [Login] section: both options, or the password missing
Logins ==
    { [Username |-> "alice", Password |-> "pw-a"],
      [Username |-> "bob", Password |-> "pw-b"],
      [Username |-> "alice"] }

\* config.cfg: absent, without a [Login] section, or with one
ConfigFiles ==
    { [exists |-> FALSE, sections |-> <<>>],
      [exists |-> TRUE, sections |-> <<>>] }
    \cup { [exists |-> TRUE, sections |-> [s \in {"Login"} |-> l]] : l \in Logins }

\* what a call into owslib may raise
ServiceErrors == {"ConnectionError", "ServiceException"}

\* what decoding a response body may raise
DecodeErrors == {"DecodeError"}

\* the 'values' lists a capability response may hold
ValueLists == UNION {[1..n -> ServerDescriptors] : n \in 0..MaxValues}

DimNames == {"time", "reference_time"}

\* the dimensions mapping of a layer: any of the two dimensions may be absent
Dimensions == UNION {[D -> [values : ValueLists]] : D \in SUBSET DimNames}

\* the contents of an authenticated capability response: the layer or nothing
Contents ==
    {<<>>} \cup {[l \in {LayerName} |-> [dimensions |-> dm]] : dm \in Dimensions}

\* the names bound by the two unpacking cells
RefTargets == <<"oldest_fcast", "newest_fcast", "issue_interval">>

TimeTargets == <<"first_datetime", "last_datetime", "datetime_interval">>

----------------------------------------------------------------------------
(* Steps of a run *)

\* the run is about to execute cell c
At(c) == error = NoError /\ pc <= Len(Cells) /\ Cells[pc] = c

\* every name of the set is bound in the kernel
Bound(names) == names \subseteq DOMAIN ns

\* name = value
Bind(name, value) == [n \in DOMAIN ns \cup {name} |-> IF n = name THEN value ELSE ns[n]]

\* the cell ran to its end: the next cell is up
Advance == pc' = pc + 1 /\ error' = error

\* the cell raised: the run ends there with that exception
Raise(exc) == error' = [cell |-> Cells[pc], exc |-> exc] /\ pc' = pc

\* Faulty variant of Invoke: a call that raised is made a second time.
\* C7_NoRetryNoWrap rejects it.
InvokeRetry(fn, args, raised) ==
    calls' = IF raised = "None"
             THEN Append(calls, [cell |-> Cells[pc], fn |-> fn, args |-> args, raised |-> raised])
             ELSE calls \o << [cell |-> Cells[pc], fn |-> fn, args |-> args, raised |-> raised],
                              [cell |-> Cells[pc], fn |-> fn, args |-> args, raised |-> raised] >>

\* a call of collaborator fn with args, which raised `raised` ("None": returned)
Invoke(fn, args, raised) ==
    calls' = Append(calls, [cell |-> Cells[pc], fn |-> fn, args |-> args, raised |-> raised])

\* a name the cell reads is not bound
NameError == Raise("NameError") /\ UNCHANGED <<notebook, ns, calls, parsed>>

\* Authentication(username=login['Username'], password=login['Password'])
Authentication(login) == [username |-> login["Username"], password |-> login["Password"]]

Init ==
    /\ notebook \in {"wcs", "wms"}
    /\ pc = 1
    /\ ns = <<>>
    /\ error = NoError
    /\ calls = <<>>
    /\ parsed = <<>>

\* Faulty variant of LoadConfig: the credentials are written in the cell and
\* config.cfg is never read.  C11_RequestOrder rejects it.
LoadConfigHardcoded ==
    /\ At("config")
    /\ ns' = Bind("login", [Username |-> "alice", Password |-> "pw-a"])
    /\ Advance
    /\ UNCHANGED <<notebook, calls, parsed>>

\* config.read_file(open('config.cfg')); login = config['Login']
\* (open and read_file are logged as the one call "read_file")
LoadConfig ==
    /\ At("config")
    /\ \E f \in ConfigFiles :
        IF ~f.exists
        THEN /\ Raise("FileNotFoundError")
             /\ Invoke("read_file", <<"config.cfg">>, "FileNotFoundError")
             /\ UNCHANGED ns
        ELSE /\ Invoke("read_file", <<"config.cfg">>, "None")
             /\ IF "Login" \in DOMAIN f.sections
                THEN ns' = Bind("login", f.sections["Login"]) /\ Advance
                ELSE Raise("KeyError") /\ UNCHANGED ns
    /\ UNCHANGED <<notebook, parsed>>

\* warnings.filterwarnings('ignore', module='owslib', category=UserWarning)
FilterWarnings ==
    /\ At("warnings")
    /\ Advance
    /\ UNCHANGED <<notebook, ns, calls, parsed>>

\* wms = WebMapService(url, version='1.3.0', timeout=300)
ConnectWMS ==
    /\ At("wms")
    /\ \E r \in {"None"} \cup ServiceErrors :
        /\ Invoke("WebMapService",
                  [url |-> <<"https://geo.weather.gc.ca/geomet?&SERVICE=WMS">>,
                   version |-> "1.3.0", timeout |-> 300], r)
        /\ IF r = "None"
           THEN /\ ns' = Bind("wms", [url |-> <<"https://geo.weather.gc.ca/geomet?&SERVICE=WMS">>,
                                      version |-> "1.3.0"])
                /\ Advance
           ELSE Raise(r) /\ UNCHANGED ns
    /\ UNCHANGED <<notebook, parsed>>

\* the cells that print the layer keys and titles of a connection
ListLayers ==
    /\ At("keys") \/ At("titles") \/ At("auth_keys")
    /\ IF ~Bound({IF Cells[pc] = "auth_keys" THEN "wms_auth" ELSE "wms"})
       THEN NameError
       ELSE Advance /\ UNCHANGED <<notebook, ns, calls, parsed>>

\* layer_name = 'DHPS_1km_RiverDischarge'
SetLayer ==
    /\ At("layer")
    /\ ns' = Bind("layer_name", LayerName)
    /\ Advance
    /\ UNCHANGED <<notebook, calls, parsed>>

\* Faulty variant of ConnectWMSAuth: user name and password are also written
\* into the URL.  C13_CredentialsOnlyInAuth rejects it.
ConnectWMSAuthCredentialsInUrl ==
    /\ At("wms_auth")
    /\ IF ~Bound({"layer_name", "login"})
       THEN NameError
       ELSE IF ~({"Username", "Password"} \subseteq DOMAIN ns["login"])
       THEN Raise("KeyError") /\ UNCHANGED <<notebook, ns, calls, parsed>>
       ELSE \E r \in {"None"} \cup ServiceErrors :
            /\ Invoke("WebMapService",
                      [url |-> <<"https://geo.weather.gc.ca/geomet?&SERVICE=WMS&LAYERS=",
                                 ns["layer_name"],
                                 "&USER=", ns["login"]["Username"],
                                 "&PASSWORD=", ns["login"]["Password"]>>,
                       version |-> "1.3.0",
                       auth |-> Authentication(ns["login"]),
                       timeout |-> 300], r)
            /\ IF r = "None"
               THEN /\ \E c \in Contents :
                         ns' = Bind("wms_auth",
                                    [url |-> <<"https://geo.weather.gc.ca/geomet?&SERVICE=WMS&LAYERS=",
                                               ns["layer_name"],
                                               "&USER=", ns["login"]["Username"],
                                               "&PASSWORD=", ns["login"]["Password"]>>,
                                     auth |-> Authentication(ns["login"]),
                                     contents |-> c])
                    /\ Advance
               ELSE Raise(r) /\ UNCHANGED ns
            /\ UNCHANGED <<notebook, parsed>>

\* wms_auth = WebMapService(f'...&SERVICE=WMS&LAYERS={layer_name}', version='1.3.0',
\*                          auth=Authentication(...), timeout=300)
ConnectWMSAuth ==
    /\ At("wms_auth")
    /\ IF ~Bound({"layer_name", "login"})
       THEN NameError
       ELSE IF ~({"Username", "Password"} \subseteq DOMAIN ns["login"])
       THEN Raise("KeyError") /\ UNCHANGED <<notebook, ns, calls, parsed>>
       ELSE \E r \in {"None"} \cup ServiceErrors :
            /\ Invoke("WebMapService",
                      [url |-> <<"https://geo.weather.gc.ca/geomet?&SERVICE=WMS&LAYERS=",
                                 ns["layer_name"]>>,
                       version |-> "1.3.0",
                       auth |-> Authentication(ns["login"]),
                       timeout |-> 300], r)
            /\ IF r = "None"
               THEN /\ \E c \in Contents :
                         ns' = Bind("wms_auth",
                                    [url |-> <<"https://geo.weather.gc.ca/geomet?&SERVICE=WMS&LAYERS=",
                                               ns["layer_name"]>>,
                                     auth |-> Authentication(ns["login"]),
                                     contents |-> c])
                    /\ Advance
               ELSE Raise(r) /\ UNCHANGED ns
            /\ UNCHANGED <<notebook, parsed>>

\* wms_auth[layer_name].dimensions
ShowDimensions ==
    /\ At("dimensions")
    /\ IF ~Bound({"wms_auth", "layer_name"})
       THEN NameError
       ELSE /\ IF ns["layer_name"] \in DOMAIN ns["wms_auth"].contents
               THEN Advance
               ELSE Raise("KeyError")
            /\ UNCHANGED <<notebook, ns, calls, parsed>>

\* Faulty variant of ParseCell: a failed unpacking is swallowed, the names are
\* bound to what is there (missing fields empty) and the run goes on.
\* C3_FailureAborts rejects it.
ParseCellBestEffort(cell, dim, targets) ==
    /\ At(cell)
    /\ IF ~Bound({"wms_auth", "layer_name"})
       THEN NameError
       ELSE LET r == ParseDimension(ns["wms_auth"], ns["layer_name"], dim)
                u == UnpackInto(targets, r.fields)
                exc == IF r.exc # "None" THEN r.exc ELSE u.exc
            IN  /\ ns' = IF exc = "None"
                         THEN u.ns
                         ELSE [n \in DOMAIN ns \cup {targets[i] : i \in 1..3} |->
                                IF \E i \in 1..3 : targets[i] = n
                                THEN LET k == CHOOSE i \in 1..3 : targets[i] = n
                                     IN  IF k <= Len(r.fields) THEN r.fields[k] ELSE <<>>
                                ELSE ns[n]]
                /\ parsed' = Append(parsed,
                        [cell |-> cell, layer |-> ns["layer_name"],
                         descriptor |-> r.descriptor,
                         fields |-> r.fields, exc |-> exc,
                         bound |-> IF exc = "None"
                                   THEN [i \in 1..Len(targets) |-> u.ns[targets[i]]]
                                   ELSE <<>>])
                /\ Advance
                /\ UNCHANGED <<notebook, calls>>

\* Faulty variant of ParseCell: the descriptor is taken off the 'values' list
\* (values.pop(0)) instead of being read.  C6_NoSideEffects rejects it.
ParseCellPop(cell, dim, targets) ==
    /\ At(cell)
    /\ IF ~Bound({"wms_auth", "layer_name"})
       THEN NameError
       ELSE LET r == ParseDimension(ns["wms_auth"], ns["layer_name"], dim)
                u == UnpackInto(targets, r.fields)
                exc == IF r.exc # "None" THEN r.exc ELSE u.exc
                popped == [u.ns EXCEPT
                    !["wms_auth"].contents[ns["layer_name"]].dimensions[dim].values = Tail(@)]
            IN  /\ ns' = IF r.exc # "None" THEN ns ELSE popped
                /\ parsed' = Append(parsed,
                        [cell |-> cell, layer |-> ns["layer_name"],
                         descriptor |-> r.descriptor,
                         fields |-> r.fields, exc |-> exc,
                         bound |-> IF exc = "None"
                                   THEN [i \in 1..Len(targets) |-> u.ns[targets[i]]]
                                   ELSE <<>>])
                /\ IF exc = "None" THEN Advance ELSE Raise(exc)
                /\ UNCHANGED <<notebook, calls>>

\* t1, t2, t3 = wms_auth[layer_name].dimensions[dim]['values'][0].split('/')
\* followed by the display of the 'values' list
ParseCell(cell, dim, targets) ==
    /\ At(cell)
    /\ IF ~Bound({"wms_auth", "layer_name"})
       THEN NameError
       ELSE LET r == ParseDimension(ns["wms_auth"], ns["layer_name"], dim)
                u == UnpackInto(targets, r.fields)
                exc == IF r.exc # "None" THEN r.exc ELSE u.exc
            IN  /\ ns' = IF r.exc # "None" THEN ns ELSE u.ns
                /\ parsed' = Append(parsed,
                        [cell |-> cell, layer |-> ns["layer_name"],
                         descriptor |-> r.descriptor,
                         fields |-> r.fields, exc |-> exc,
                         bound |-> IF exc = "None"
                                   THEN [i \in 1..Len(targets) |-> u.ns[targets[i]]]
                                   ELSE <<>>])
                /\ IF exc = "None" THEN Advance ELSE Raise(exc)
                /\ UNCHANGED <<notebook, calls>>

\* oldest_fcast, newest_fcast, issue_interval = ...['reference_time']['values'][0].split('/')
ParseReferenceTime == ParseCell("ref_parse", "reference_time", RefTargets)

\* first_datetime, last_datetime, datetime_interval = ...['time']['values'][0].split('/')
ParseTime == ParseCell("time_parse", "time", TimeTargets)

\* Faulty variant of ConnectWCS: the cell assigns another layer name than cell
\* 6998e56e did.  C12_LayerAndLoginFixed rejects it.
ConnectWCSOtherLayer ==
    /\ At("wcs")
    /\ IF ~Bound({"login"})
       THEN NameError
       ELSE IF ~({"Username", "Password"} \subseteq DOMAIN ns["login"])
       THEN /\ Raise("KeyError")
            /\ ns' = Bind("layer_name", "DHPS_1km_Other")
            /\ UNCHANGED <<notebook, calls, parsed>>
       ELSE \E r \in {"None"} \cup ServiceErrors :
            /\ Invoke("WebCoverageService",
                      [url |-> <<"https://geo.weather.gc.ca/geomet?&SERVICE=WCS&COVERAGEID=",
                                 "DHPS_1km_Other">>,
                       auth |-> Authentication(ns["login"]),
                       version |-> "2.0.1",
                       timeout |-> 300], r)
            /\ IF r = "None"
               THEN /\ ns' = [n \in DOMAIN ns \cup {"layer_name", "wcs_auth"} |->
                                IF n = "layer_name" THEN "DHPS_1km_Other"
                                ELSE IF n = "wcs_auth"
                                THEN [url |-> <<"https://geo.weather.gc.ca/geomet?&SERVICE=WCS&COVERAGEID=",
                                                "DHPS_1km_Other">>,
                                      auth |-> Authentication(ns["login"])]
                                ELSE ns[n]]
                    /\ Advance
               ELSE Raise(r) /\ ns' = Bind("layer_name", "DHPS_1km_Other")
            /\ UNCHANGED <<notebook, parsed>>

\* layer_name = 'DHPS_1km_RiverDischarge'
\* wcs_auth = WebCoverageService(f'...&SERVICE=WCS&COVERAGEID={layer_name}',
\*                               auth=Authentication(...), version='2.0.1', timeout=300)
ConnectWCS ==
    /\ At("wcs")
    /\ IF ~Bound({"login"})
       THEN NameError
       ELSE IF ~({"Username", "Password"} \subseteq DOMAIN ns["login"])
       THEN /\ Raise("KeyError")
            /\ ns' = Bind("layer_name", LayerName)
            /\ UNCHANGED <<notebook, calls, parsed>>
       ELSE \E r \in {"None"} \cup ServiceErrors :
            /\ Invoke("WebCoverageService",
                      [url |-> <<"https://geo.weather.gc.ca/geomet?&SERVICE=WCS&COVERAGEID=",
                                 LayerName>>,
                       auth |-> Authentication(ns["login"]),
                       version |-> "2.0.1",
                       timeout |-> 300], r)
            /\ IF r = "None"
               THEN /\ ns' = [n \in DOMAIN ns \cup {"layer_name", "wcs_auth"} |->
                                IF n = "layer_name" THEN LayerName
                                ELSE IF n = "wcs_auth"
                                THEN [url |-> <<"https://geo.weather.gc.ca/geomet?&SERVICE=WCS&COVERAGEID=",
                                                LayerName>>,
                                      auth |-> Authentication(ns["login"])]
                                ELSE ns[n]]
                    /\ Advance
               ELSE Raise(r) /\ ns' = Bind("layer_name", LayerName)
            /\ UNCHANGED <<notebook, parsed>>

\* Faulty variant of GetCoverage: the oldest issue and the last timestep are
\* requested.  C4_PassThrough rejects it.
GetCoverageOldest ==
    /\ At("getCoverage")
    /\ IF ~Bound({"wcs_auth", "layer_name", "oldest_fcast", "last_datetime"})
       THEN NameError
       ELSE \E r \in {"None"} \cup ServiceErrors :
            /\ Invoke("getCoverage",
                      [identifier |-> <<ns["layer_name"]>>,
                       format |-> "image/netcdf",
                       subsettingcrs |-> "EPSG:4326",
                       subsets |-> << <<"lat", 45, 46>>, <<"lon", -70, -69>> >>,
                       DIM_REFERENCE_TIME |-> ns["oldest_fcast"],
                       TIME |-> ns["last_datetime"]], r)
            /\ IF r = "None"
               THEN ns' = Bind("response", "coverage") /\ Advance
               ELSE Raise(r) /\ UNCHANGED ns
            /\ UNCHANGED <<notebook, parsed>>

\* response = wcs_auth.getCoverage(identifier=[layer_name], format='image/netcdf',
\*     subsettingcrs='EPSG:4326', subsets=[('lat', 45.0, 46.0), ('lon', -70.0, -69.0)],
\*     DIM_REFERENCE_TIME=newest_fcast, TIME=first_datetime)
GetCoverage ==
    /\ At("getCoverage")
    /\ IF ~Bound({"wcs_auth", "layer_name", "newest_fcast", "first_datetime"})
       THEN NameError
       ELSE \E r \in {"None"} \cup ServiceErrors :
            /\ Invoke("getCoverage",
                      [identifier |-> <<ns["layer_name"]>>,
                       format |-> "image/netcdf",
                       subsettingcrs |-> "EPSG:4326",
                       subsets |-> << <<"lat", 45, 46>>, <<"lon", -70, -69>> >>,
                       DIM_REFERENCE_TIME |-> ns["newest_fcast"],
                       TIME |-> ns["first_datetime"]], r)
            /\ IF r = "None"
               THEN ns' = Bind("response", "coverage") /\ Advance
               ELSE Raise(r) /\ UNCHANGED ns
            /\ UNCHANGED <<notebook, parsed>>

\* ds = xr.open_dataset(response.read()).load()
OpenDataset ==
    /\ At("open_dataset")
    /\ IF ~Bound({"response"})
       THEN NameError
       ELSE \E r \in {"None"} \cup DecodeErrors :
            /\ Invoke("open_dataset", <<ns["response"]>>, r)
            /\ IF r = "None"
               THEN ns' = Bind("ds", "dataset") /\ Advance
               ELSE Raise(r) /\ UNCHANGED ns
            /\ UNCHANGED <<notebook, parsed>>

\* width = 500; height = 400
\* response = wms_auth.getmap(layers=[layer_name], format='image/png', srs='EPSG:4326',
\*     styles=['RiverDischarge'], bbox=(-78, 42, -74, 47), size=(width, height),
\*     transparent=True)
\* Image(response.read(), width=width, height=height)
GetMap ==
    /\ At("getmap")
    /\ IF ~Bound({"wms_auth", "layer_name"})
       THEN /\ Raise("NameError")
            /\ ns' = [n \in DOMAIN ns \cup {"width", "height"} |->
                        IF n = "width" THEN 500 ELSE IF n = "height" THEN 400 ELSE ns[n]]
            /\ UNCHANGED <<notebook, calls, parsed>>
       ELSE \E r \in {"None"} \cup ServiceErrors, d \in {"None"} \cup DecodeErrors :
            LET args == [layers |-> <<ns["layer_name"]>>,
                         format |-> "image/png",
                         srs |-> "EPSG:4326",
                         styles |-> <<"RiverDischarge">>,
                         bbox |-> <<-78, 42, -74, 47>>,
                         size |-> <<500, 400>>,
                         transparent |-> TRUE]
                sized == [n \in DOMAIN ns \cup {"width", "height"} |->
                            IF n = "width" THEN 500 ELSE IF n = "height" THEN 400 ELSE ns[n]]
                got == [n \in DOMAIN sized \cup {"response"} |->
                            IF n = "response" THEN "map" ELSE sized[n]]
            IN  /\ IF r # "None"
                   THEN /\ d = "None"
                        /\ Invoke("getmap", args, r)
                        /\ Raise(r)
                        /\ ns' = sized
                   ELSE /\ calls' = calls
                               \o << [cell |-> "getmap", fn |-> "getmap", args |-> args,
                                      raised |-> "None"],
                                     [cell |-> "getmap", fn |-> "Image", args |-> <<"map", 500, 400>>,
                                      raised |-> d] >>
                        /\ ns' = got
                        /\ IF d = "None" THEN Advance ELSE Raise(d)
                /\ UNCHANGED <<notebook, parsed>>

Next ==
    \/ LoadConfig
    \/ FilterWarnings
    \/ ConnectWMS
    \/ ListLayers
    \/ SetLayer
    \/ ConnectWMSAuth
    \/ ShowDimensions
    \/ ParseReferenceTime
    \/ ParseTime
    \/ ConnectWCS
    \/ GetCoverage
    \/ OpenDataset
    \/ GetMap

Spec == Init /\ [][Next]_vars

----------------------------------------------------------------------------
(* The parser harness: the two unpacking cells on arbitrary descriptors *)

\* the kernel after the cells before "ref_parse" of the WCS notebook ran, the
\* capability response holding dref and dtime as the only 'values' entries
KernelBeforeParse(dref, dtime) ==
    [login |-> [Username |-> "alice", Password |-> "pw-a"],
     wms |-> [url |-> <<"https://geo.weather.gc.ca/geomet?&SERVICE=WMS">>,
              version |-> "1.3.0"],
     layer_name |-> LayerName,
     wms_auth |->
        [url |-> <<"https://geo.weather.gc.ca/geomet?&SERVICE=WMS&LAYERS=", LayerName>>,
         auth |-> [username |-> "alice", password |-> "pw-a"],
         contents |-> [l \in {LayerName} |->
            [dimensions |-> [reference_time |-> [values |-> <<dref>>],
                             time |-> [values |-> <<dtime>>]]]]]]

\* the collaborator calls those cells made
CallsBeforeParse ==
    << [cell |-> "config", fn |-> "read_file", args |-> <<"config.cfg">>, raised |-> "None"],
       [cell |-> "wms", fn |-> "WebMapService",
        args |-> [url |-> <<"https://geo.weather.gc.ca/geomet?&SERVICE=WMS">>,
                  version |-> "1.3.0", timeout |-> 300],
        raised |-> "None"],
       [cell |-> "wms_auth", fn |-> "WebMapService",
        args |-> [url |-> <<"https://geo.weather.gc.ca/geomet?&SERVICE=WMS&LAYERS=", LayerName>>,
                  version |-> "1.3.0",
                  auth |-> [username |-> "alice", password |-> "pw-a"],
                  timeout |-> 300],
        raised |-> "None"] >>

\* the run stands before "ref_parse"; one of the two descriptors is any string
\* of ParserInputs, the other the same string or a server descriptor
InitParse ==
    /\ notebook = "wcs"
    /\ pc = WcsIndex("ref_parse")
    /\ error = NoError
    /\ calls = CallsBeforeParse
    /\ parsed = <<>>
    /\ \E d \in ParserInputs, e \in ServerDescriptors, same \in BOOLEAN, swap \in BOOLEAN :
        ns = KernelBeforeParse(IF swap THEN (IF same THEN d ELSE e) ELSE d,
                               IF swap THEN d ELSE (IF same THEN d ELSE e))

\* an unpacking cell that already ran is run again in the same kernel
\* (the notebook's execution counts record such re-executions)
RerunCell ==
    /\ Len(parsed) < MaxParses
    /\ \E i \in 1..Len(parsed) :
        /\ pc' = WcsIndex(parsed[i].cell)
        /\ error' = NoError
    /\ UNCHANGED <<notebook, ns, calls, parsed>>

NextParse ==
    \/ ParseReferenceTime
    \/ ParseTime
    \/ RerunCell

SpecParse == InitParse /\ [][NextParse]_vars

----------------------------------------------------------------------------
(* Vocabulary of the properties *)

\* number of separators of a string
SepCount(s) == Cardinality({i \in 1..Len(s) : s[i] = "/"})

\* a/b/c
Join3(a, b, c) == a \o <<"/">> \o b \o <<"/">> \o c

\* the text before the first separator of a string that has one
BeforeFirstSep(s) ==
    SubSeq(s, 1, (CHOOSE i \in 1..Len(s) :
                    s[i] = "/" /\ \A j \in 1..Len(s) : s[j] = "/" => i <= j) - 1)

\* the text between the first and the last separator of a string that has two
BetweenSeps(s) ==
    SubSeq(s,
           (CHOOSE i \in 1..Len(s) : s[i] = "/" /\ \A j \in 1..Len(s) : s[j] = "/" => i <= j) + 1,
           (CHOOSE i \in 1..Len(s) : s[i] = "/" /\ \A j \in 1..Len(s) : s[j] = "/" => j <= i) - 1)

\* the unpacking cells: cell, the dimension it reads, the names it binds
ParseCells ==
    { [cell |-> "ref_parse", dim |-> "reference_time", targets |-> RefTargets],
      [cell |-> "time_parse", dim |-> "time", targets |-> TimeTargets] }

\* the capability response holds a first 'values' entry for the dimension
HasDescriptor(dim) ==
    /\ "wms_auth" \in DOMAIN ns
    /\ LayerName \in DOMAIN ns["wms_auth"].contents
    /\ dim \in DOMAIN ns["wms_auth"].contents[LayerName].dimensions
    /\ ns["wms_auth"].contents[LayerName].dimensions[dim].values # <<>>

\* the 'values' list of the dimension
ValuesOf(dim) == ns["wms_auth"].contents[LayerName].dimensions[dim].values

\* the first 'values' entry of the dimension
DescriptorOf(dim) == ValuesOf(dim)[1]

\* the last step executed the unpacking cell c: the run stands right after it
\* or has ended in it
JustParsed(c) ==
    /\ parsed # <<>>
    /\ parsed[Len(parsed)].cell = c
    /\ \/ error = NoError /\ pc = WcsIndex(c) + 1
       \/ error.cell = c

\* the three names are bound
Assigned(targets) == \A i \in 1..3 : targets[i] \in DOMAIN ns

\* the getCoverage calls of the run
CoverageRequests == {k \in 1..Len(calls) : calls[k].fn = "getCoverage"}

----------------------------------------------------------------------------
(* C1: a descriptor a/b/c whose three fields hold no separator is unpacked   *)
(* into exactly (a, b, c): the run goes on, the three names are bound, they  *)
(* hold no separator and joined with "/" they give back the descriptor.      *)
C1_RoundTrip ==
    \A p \in ParseCells :
        (JustParsed(p.cell) /\ HasDescriptor(p.dim) /\ SepCount(DescriptorOf(p.dim)) = 2)
        => /\ error = NoError
           /\ Assigned(p.targets)
           /\ \A i \in 1..3 : SepCount(ns[p.targets[i]]) = 0
           /\ Join3(ns[p.targets[1]], ns[p.targets[2]], ns[p.targets[3]])
                = DescriptorOf(p.dim)

\* the recorded reference_time descriptor was unpacked into its three fields
C1_Witness ==
    /\ JustParsed("ref_parse")
    /\ DescriptorOf("reference_time") = RefExample
    /\ ns["oldest_fcast"] = SubSeq(RefExample, 1, 20)
    /\ ns["newest_fcast"] = SubSeq(RefExample, 22, 41)
    /\ ns["issue_interval"] = SubSeq(RefExample, 43, 47)

(* C2: a descriptor whose separator count is not two makes the unpacking     *)
(* cell fail with the malformed-descriptor exception (Python's ValueError);  *)
(* no triple is produced by truncating or padding: none of the names of the  *)
(* cell is bound.                                                            *)
C2_MalformedFails ==
    \A p \in ParseCells :
        (JustParsed(p.cell) /\ HasDescriptor(p.dim) /\ SepCount(DescriptorOf(p.dim)) # 2)
        => /\ error = [cell |-> p.cell, exc |-> "ValueError"]
           /\ \A i \in 1..3 : p.targets[i] \notin DOMAIN ns

\* a time descriptor of four characters, three of them separators, made the
\* second cell fail
C2_Witness ==
    /\ JustParsed("time_parse")
    /\ error = [cell |-> "time_parse", exc |-> "ValueError"]
    /\ SepCount(DescriptorOf("time")) = 3
    /\ Len(DescriptorOf("time")) = 4

C9_StructureOnly ==
    \A p \in ParseCells :
        (JustParsed(p.cell) /\ HasDescriptor(p.dim))
        => /\ (error = NoError) <=> (SepCount(DescriptorOf(p.dim)) = 2)
           /\ DescriptorOf(p.dim) = <<"/", "/">>
                => /\ Assigned(p.targets)
                   /\ \A i \in 1..3 : ns[p.targets[i]] = <<>>

\* "//" was accepted by the first cell and "b//a" by the second
C9_Witness ==
    /\ JustParsed("time_parse")
    /\ error = NoError
    /\ DescriptorOf("reference_time") = <<"/", "/">>
    /\ DescriptorOf("time") = <<"b", "/", "/", "a">>
    /\ ns["oldest_fcast"] = <<>>
    /\ ns["last_datetime"] = <<>>

----------------------------------------------------------------------------
(* C3: a run in which the unpacking of the reference_time or of the time     *)
(* descriptor failed issues no getCoverage request.                          *)
C3_FailureAborts ==
    (\E i \in 1..Len(parsed) : parsed[i].exc # "None") => CoverageRequests = {}

\* the time descriptor was malformed after the reference_time one was
\* unpacked: the run ended there, before the WCS connection
C3_Witness ==
    /\ notebook = "wcs"
    /\ Len(parsed) = 2
    /\ parsed[1].exc = "None"
    /\ parsed[2].exc = "ValueError"
    /\ error = [cell |-> "time_parse", exc |-> "ValueError"]
    /\ ~\E k \in 1..Len(calls) : calls[k].fn = "WebCoverageService"

(* C4: every getCoverage request carries as DIM_REFERENCE_TIME the text      *)
(* between the two separators of the reference_time descriptor and as TIME   *)
(* the text before the first separator of the time descriptor, character for *)
(* character, and these are the values the unpacking bound.                  *)
C4_PassThrough ==
    \A k \in CoverageRequests :
        /\ HasDescriptor("reference_time") /\ HasDescriptor("time")
        /\ SepCount(DescriptorOf("reference_time")) = 2
        /\ SepCount(DescriptorOf("time")) = 2
        /\ calls[k].args.DIM_REFERENCE_TIME = BetweenSeps(DescriptorOf("reference_time"))
        /\ calls[k].args.TIME = BeforeFirstSep(DescriptorOf("time"))
        /\ parsed[1].bound[2] = calls[k].args.DIM_REFERENCE_TIME
        /\ parsed[2].bound[1] = calls[k].args.TIME

\* the request for the recorded capability response
C4_Witness ==
    \E k \in CoverageRequests :
        /\ DescriptorOf("reference_time") = RefExample
        /\ DescriptorOf("time") = TimeExample
        /\ calls[k].args.DIM_REFERENCE_TIME = SubSeq(RefExample, 22, 41)
        /\ calls[k].args.TIME = SubSeq(TimeExample, 1, 20)
        /\ calls[k].raised = "None"

\* what a step of an unpacking cell leaves alone: every name but the three it
\* binds (the connection with its dimension mapping, the login, the layer
\* name), the log of collaborator calls and the notebook
ParseFrame ==
    LET t == IF Cells[pc] = "ref_parse" THEN RefTargets ELSE TimeTargets
        T == {t[i] : i \in 1..3}
    IN  /\ DOMAIN ns' \subseteq DOMAIN ns \cup T
        /\ \A n \in DOMAIN ns \ T : n \in DOMAIN ns' /\ ns'[n] = ns[n]
        /\ calls' = calls
        /\ notebook' = notebook

(* C6: a step of an unpacking cell, successful or not, changes nothing but   *)
(* the three names the cell binds: the descriptor, the dimension mapping of  *)
(* the connection, the credentials and the layer name stay as they were.     *)
C6_NoSideEffects ==
    [][(At("ref_parse") \/ At("time_parse")) => ParseFrame]_vars

\* both outcomes happened: one cell succeeded and the other one failed
C6_Witness ==
    /\ Len(parsed) = 2
    /\ parsed[1].exc = "None"
    /\ parsed[2].exc = "ValueError"
    /\ Len(ValuesOf("time")) = 2
    /\ Assigned(RefTargets)

(* C7: no collaborator call is made twice in a run, and a call that raised   *)
(* is the last one: the run ended in that cell with the exception the call   *)
(* raised, and a run that ended stays in the cell that raised.               *)
C7_NoRetryNoWrap ==
    /\ \A i, j \in 1..Len(calls) :
        (calls[i].cell = calls[j].cell /\ calls[i].fn = calls[j].fn) => i = j
    /\ \A i \in 1..Len(calls) :
        calls[i].raised # "None"
        => /\ i = Len(calls)
           /\ error = [cell |-> calls[i].cell, exc |-> calls[i].raised]
    /\ error # NoError => pc <= Len(Cells) /\ Cells[pc] = error.cell

\* getCoverage raised after four calls that returned
C7_Witness ==
    /\ Len(calls) = 5
    /\ calls[5].fn = "getCoverage"
    /\ calls[5].raised = "ServiceException"
    /\ error = [cell |-> "getCoverage", exc |-> "ServiceException"]

(* C8: a step of an unpacking cell that fails on a malformed descriptor      *)
(* leaves each of the six names of the two cells as it was: bound to the     *)
(* same value, or unbound.                                                   *)
C8_NoPartialResult ==
    [][((At("ref_parse") \/ At("time_parse")) /\ error'.exc = "ValueError")
        => \A n \in {"oldest_fcast", "newest_fcast", "issue_interval",
                     "first_datetime", "last_datetime", "datetime_interval"} :
            /\ (n \in DOMAIN ns') <=> (n \in DOMAIN ns)
            /\ n \in DOMAIN ns => ns'[n] = ns[n]]_vars

\* a descriptor with a single separator (two fields) made the first cell fail
C8_Witness ==
    /\ error = [cell |-> "ref_parse", exc |-> "ValueError"]
    /\ HasDescriptor("reference_time")
    /\ SepCount(DescriptorOf("reference_time")) = 1
    /\ \A i \in 1..3 : RefTargets[i] \notin DOMAIN ns

\* the getCoverage arguments that follow from the first entries alone
RequestFor(dref, dtime) ==
    [identifier |-> <<LayerName>>,
     format |-> "image/netcdf",
     subsettingcrs |-> "EPSG:4326",
     subsets |-> << <<"lat", 45, 46>>, <<"lon", -70, -69>> >>,
     DIM_REFERENCE_TIME |-> BetweenSeps(dref),
     TIME |-> BeforeFirstSep(dtime)]

(* C10: of a 'values' list only the first entry counts: a cell succeeds      *)
(* exactly when the first entry has two separators and binds the fields of   *)
(* the first entry, whatever follows it in the list, and the request is the  *)
(* one determined by the two first entries.                                  *)
C10_FirstEntryOnly ==
    /\ \A p \in ParseCells :
        (JustParsed(p.cell) /\ HasDescriptor(p.dim))
        => /\ (error = NoError) <=> (SepCount(ValuesOf(p.dim)[1]) = 2)
           /\ error = NoError
                => Join3(ns[p.targets[1]], ns[p.targets[2]], ns[p.targets[3]])
                     = ValuesOf(p.dim)[1]
    /\ \A k \in CoverageRequests :
        calls[k].args = RequestFor(ValuesOf("reference_time")[1], ValuesOf("time")[1])

\* a request was issued although both lists hold a second, malformed entry
C10_Witness ==
    \E k \in CoverageRequests :
        /\ Len(ValuesOf("reference_time")) = 2
        /\ Len(ValuesOf("time")) = 2
        /\ SepCount(ValuesOf("reference_time")[2]) = 3
        /\ SepCount(ValuesOf("time")[2]) = 1
        /\ calls[k].args.DIM_REFERENCE_TIME = SubSeq(RefExample, 22, 41)
        /\ error = NoError

----------------------------------------------------------------------------
(* C11: a getCoverage request is preceded, in this order, by the successful  *)
(* read of the configuration (login is bound), by the successful             *)
(* authenticated capability query for the requested layer and by the         *)
(* successful unpacking of the reference_time and of the time descriptor of  *)
(* that capability response; the request carries the fields so unpacked.     *)
C11_RequestOrder ==
    \A k \in CoverageRequests :
        /\ \E i, j \in 1..(k - 1) :
            /\ i < j
            /\ calls[i].cell = "config" /\ calls[i].fn = "read_file"
            /\ calls[i].raised = "None"
            /\ calls[j].cell = "wms_auth" /\ calls[j].fn = "WebMapService"
            /\ calls[j].raised = "None"
            /\ calls[j].args.url[2] = calls[k].args.identifier[1]
        /\ "login" \in DOMAIN ns
        /\ Len(parsed) = 2
        /\ parsed[1].cell = "ref_parse" /\ parsed[1].exc = "None"
        /\ parsed[2].cell = "time_parse" /\ parsed[2].exc = "None"
        /\ HasDescriptor("reference_time") /\ HasDescriptor("time")
        /\ parsed[1].descriptor = DescriptorOf("reference_time")
        /\ parsed[2].descriptor = DescriptorOf("time")
        /\ calls[k].args.DIM_REFERENCE_TIME = parsed[1].bound[2]
        /\ calls[k].args.TIME = parsed[2].bound[1]

\* the request was answered in a run with the second login: the fifth call,
\* after the configuration, the two WMS connections and the WCS connection
C11_Witness ==
    /\ CoverageRequests = {5}
    /\ calls[5].raised = "None"
    /\ ns["login"]["Username"] = "bob"
    /\ calls[4].fn = "WebCoverageService"
    /\ "response" \in DOMAIN ns

\* the authenticated connections made so far
AuthConnections == {k \in 1..Len(calls) : calls[k].cell \in {"wms_auth", "wcs"}}

\* the getmap calls of the run
MapRequests == {k \in 1..Len(calls) : calls[k].fn = "getmap"}

\* every layer identifier the run has used: in the URL of an authenticated
\* connection (LAYERS, COVERAGEID), as the layer whose dimensions were
\* unpacked, and in the getCoverage and getmap requests
LayersUsed ==
    {calls[k].args.url[2] : k \in AuthConnections}
    \cup {parsed[i].layer : i \in 1..Len(parsed)}
    \cup UNION {{calls[k].args.identifier[i] : i \in 1..Len(calls[k].args.identifier)} :
                    k \in CoverageRequests}
    \cup UNION {{calls[k].args.layers[i] : i \in 1..Len(calls[k].args.layers)} :
                    k \in MapRequests}

(* C12: a run uses one layer identifier: the LAYERS of the authenticated WMS *)
(* connection, the layer whose dimensions are unpacked, the COVERAGEID of    *)
(* the WCS connection and the identifier of getCoverage (the layers of       *)
(* getmap in the WMS notebook) are the same; and every authenticated         *)
(* connection is given the user name and password of the login read from     *)
(* the configuration.                                                        *)
C12_LayerAndLoginFixed ==
    /\ Cardinality(LayersUsed) <= 1
    /\ \A k \in CoverageRequests : Len(calls[k].args.identifier) = 1
    /\ \A k \in MapRequests : Len(calls[k].args.layers) = 1
    /\ \A k \in AuthConnections :
        /\ "login" \in DOMAIN ns
        /\ calls[k].args.auth = [username |-> ns["login"]["Username"],
                                 password |-> ns["login"]["Password"]]

\* a WCS run up to the request: both connections, both unpackings and the
\* request used the layer, the connections the first login
C12_Witness ==
    /\ CoverageRequests # {}
    /\ Cardinality(AuthConnections) = 2
    /\ Len(parsed) = 2
    /\ LayersUsed = {LayerName}
    /\ \A k \in AuthConnections :
        calls[k].args.auth = [username |-> "alice", password |-> "pw-a"]

\* the getmap arguments, which depend on nothing but the layer
MapRequest ==
    [layers |-> <<LayerName>>,
     format |-> "image/png",
     srs |-> "EPSG:4326",
     styles |-> <<"RiverDischarge">>,
     bbox |-> <<-78, 42, -74, 47>>,
     size |-> <<500, 400>>,
     transparent |-> TRUE]

(* C13: user name and password reach a collaborator only in the auth         *)
(* argument of the authenticated connections.  The URL of every connection   *)
(* and all arguments of the unauthenticated WMS connection, of getCoverage   *)
(* and of getmap are determined by the layer name and the capability         *)
(* response alone, so runs that differ only in the login build the same      *)
(* URLs and the same arguments; no URL part is the user name or password.    *)
C13_CredentialsOnlyInAuth ==
    \A k \in 1..Len(calls) :
        /\ calls[k].cell = "wms"
            => calls[k].args = [url |-> <<"https://geo.weather.gc.ca/geomet?&SERVICE=WMS">>,
                                version |-> "1.3.0", timeout |-> 300]
        /\ calls[k].cell = "wms_auth"
            => /\ calls[k].args.url
                    = <<"https://geo.weather.gc.ca/geomet?&SERVICE=WMS&LAYERS=", LayerName>>
               /\ calls[k].args.version = "1.3.0" /\ calls[k].args.timeout = 300
        /\ calls[k].cell = "wcs"
            => /\ calls[k].args.url
                    = <<"https://geo.weather.gc.ca/geomet?&SERVICE=WCS&COVERAGEID=", LayerName>>
               /\ calls[k].args.version = "2.0.1" /\ calls[k].args.timeout = 300
        /\ calls[k].cell \in {"wms", "wms_auth", "wcs"}
            => \A i \in 1..Len(calls[k].args.url) :
                 \A l \in Logins : \A f \in DOMAIN l : calls[k].args.url[i] # l[f]
        /\ calls[k].fn = "getCoverage"
            => calls[k].args = RequestFor(ValuesOf("reference_time")[1], ValuesOf("time")[1])
        /\ calls[k].fn = "getmap" => calls[k].args = MapRequest

\* a WMS run with the second login got as far as getmap; its authenticated
\* connection carried that login in the auth argument
C13_Witness ==
    /\ notebook = "wms"
    /\ MapRequests # {}
    /\ ns["login"] = [Username |-> "bob", Password |-> "pw-b"]
    /\ \E k \in AuthConnections :
        calls[k].args.auth = [username |-> "bob", password |-> "pw-b"]

====
